---- MODULE Spec2Model ----
(***************************************************************************)
(* FREDRICK AI: the three programs of the repository as one state machine. *)
(*                                                                         *)
(*   variant = "http"    backend/api.py            (FastAPI endpoints)     *)
(*   variant = "groq"    backend/fredrick_groq.py  (class FREDRICK, Groq)  *)
(*   variant = "gemini"  backend/fredrick.py       (class FREDRICK, Gemini)*)
(*                                                                         *)
(* The three are separate processes that share no state, so a behaviour    *)
(* runs one of them, chosen in Init.  Python strings are TLA+ strings,     *)
(* composed with \o exactly as the f-strings compose them.  An optional    *)
(* value is None (the empty tuple) or Some(v) (the one-element tuple).     *)
(* The remote completion service is the environment: each call to it       *)
(* returns a content or raises, chosen nondeterministically.               *)
(* The "timestamp" entries of fredrick.py (datetime.now().isoformat()) are *)
(* wall-clock readings that no operation reads back; they are left out.    *)
(***************************************************************************)
EXTENDS Integers, Sequences, FiniteSets, TLC

VARIABLES
    variant,               \* which program this process runs
    env,                   \* os.environ, read by os.getenv
    self,                  \* the FREDRICK object of the class variants
    conversation_history,  \* fredrick.py: self.conversation_history
    pc,                    \* position of the one operation in progress
    op,                    \* the operation in progress: name, header, args
    calls,                 \* round trips to the remote endpoint made by op
    sent,                  \* every request sent to the remote endpoint, in order
    reply,                 \* what the remote endpoint answered to op's request
    result,                \* what op handed back to its caller
    session                \* main() of the class variants: the interactive loop

vars ==
    <<variant, env, self, conversation_history, pc, op, calls, sent, reply, result, session>>

---------------------------------------------------------------------------
(* Python values *)

None == <<>>
Some(v) == <<v>>

\* Python truthiness of an Optional[str]: None and "" are falsy.
TruthyStr(o) == o # None /\ o[1] # ""

\* Python truthiness of an Optional[list] / Optional[dict]: None and the
\* empty container are falsy.  A dict is its sequence of <<key, value>> items.
TruthySeq(o) == o # None /\ o[1] # <<>>

\* a or b, for an Optional[str] a and a str b
OrStr(a, b) == IF TruthyStr(a) THEN a[1] ELSE b

\* os.getenv(name, default)
GetenvDefault(name, default) == IF env[name] = None THEN default ELSE env[name][1]

RECURSIVE Join(_, _)
\* sep.join(list)
Join(sep, list) ==
    IF list = <<>> THEN ""
    ELSE IF Len(list) = 1 THEN list[1]
    ELSE list[1] \o sep \o Join(sep, Tail(list))

\* sub in s
Contains(s, sub) ==
    \E i \in 1..(Len(s) - Len(sub) + 1) : SubSeq(s, i, i + Len(sub) - 1) = sub

\* A dict value is a str, [str |-> v], or an object json cannot encode,
\* [obj |-> type name].
JsonSerializable(d) == \A i \in 1..Len(d) : "str" \in DOMAIN d[i][2]

JsonItem(item) == "\"" \o item[1] \o "\": \"" \o item[2].str \o "\""

RECURSIVE JsonItems(_, _)
JsonItems(d, sep) ==
    IF Len(d) = 1 THEN JsonItem(d[1])
    ELSE JsonItem(d[1]) \o sep \o JsonItems(Tail(d), sep)

\* json.dumps(d): [ok |-> TRUE, text] or the TypeError it raises
json_dumps(d) ==
    IF ~JsonSerializable(d)
    THEN [ok |-> FALSE,
          error |-> "Object of type " \o d[CHOOSE i \in 1..Len(d) : "obj" \in DOMAIN d[i][2]][2].obj
                    \o " is not JSON serializable"]
    ELSE [ok |-> TRUE,
          text |-> IF d = <<>> THEN "{}" ELSE "{" \o JsonItems(d, ", ") \o "}"]

\* json.dumps(d, indent=2)
json_dumps_indent2(d) ==
    IF ~JsonSerializable(d)
    THEN [ok |-> FALSE, error |-> json_dumps(d).error]
    ELSE [ok |-> TRUE,
          text |-> IF d = <<>> THEN "{}" ELSE "{\n  " \o JsonItems(d, ",\n  ") \o "\n}"]

\* str.lower() of one character
LowerChar(c) ==
    LET upper == "ABCDEFGHIJKLMNOPQRSTUVWXYZ"
        lower == "abcdefghijklmnopqrstuvwxyz"
    IN  IF \E i \in 1..26 : SubSeq(upper, i, i) = c
        THEN LET i == CHOOSE i \in 1..26 : SubSeq(upper, i, i) = c IN SubSeq(lower, i, i)
        ELSE c

RECURSIVE Lower(_)
\* s.lower()
Lower(s) ==
    IF s = "" THEN "" ELSE LowerChar(SubSeq(s, 1, 1)) \o Lower(SubSeq(s, 2, Len(s)))

IsSpace(c) == c \in {" ", "\t", "\n", "\r"}

RECURSIVE Strip(_)
\* s.strip()
Strip(s) ==
    IF s = "" THEN ""
    ELSE IF IsSpace(SubSeq(s, 1, 1)) THEN Strip(SubSeq(s, 2, Len(s)))
    ELSE IF IsSpace(SubSeq(s, Len(s), Len(s))) THEN Strip(SubSeq(s, 1, Len(s) - 1))
    ELSE s

\* str(x) of an Optional[str], as an f-string formats it
Str(o) == IF o = None THEN "None" ELSE o[1]

---------------------------------------------------------------------------
(* Bounds and input domains *)

\* Requests sent to the remote endpoint in one process lifetime.
MaxSent == 2

NoOp == [name |-> "none", header |-> None, args |-> [none |-> TRUE]]
NoResult == [kind |-> "none"]
NoReply == [kind |-> "none"]
Returned(content) == [kind |-> "content", content |-> content]
Raised(e) == [kind |-> "raise", error |-> e]

\* X-API-Key as APIKeyHeader(auto_error=False) hands it over: None when the
\* header is missing.
Headers == {None, Some("k1"), Some("k2")}

\* FREDRICK_API_KEY in the environment: unset, set to the empty string, set.
ApiKeys == {None, Some(""), Some("k1")}

ChatRequests ==
    [message : {"b", "Context: a\n\nQuery: b"}, context : {None, Some(""), Some("a")}]

RiskAnalysisRequests ==
    [business_data : {"a", "b"},
     risk_areas : {None, Some(<<>>), Some(<<"x", "y">>), Some(<<"x, y">>)}]

ComplianceCheckRequests ==
    [document : {"a", "b"}, compliance_framework : {"HIPAA", "SOC 2"}]

DueDiligenceRequests ==
    [company_info : {"a", "b"}, focus_areas : {None, Some(<<"x">>)}]

\* response.choices[0].message.content: a text, or None (the client types it
\* Optional[str]).  A completion may read like an error message.
Contents == {Some("R1"), Some("Error: boom"), None}

\* str(e) of what the remote call raises
Errors == {"boom"}

\* What input("You: ") gives main(): a line, EOFError at the end of the input,
\* KeyboardInterrupt on Ctrl-C.
MainInputs ==
    {[kind |-> "line", text |-> t] : t \in {"b", "Exit", "quit", " exit ", "Clear", ""}}
    \cup {[kind |-> "raise", type |-> "EOFError", error |-> "EOF when reading a line"],
          [kind |-> "raise", type |-> "KeyboardInterrupt", error |-> ""]}

\* main() is in its loop / has returned or died.  user_input and raised are
\* what the last input() gave, printed the print() calls of main's last step.
Running(user_input, raised, printed) ==
    [state |-> "running", user_input |-> user_input, raised |-> raised, printed |-> printed]

Ended(user_input, raised, printed) ==
    [state |-> "ended", user_input |-> user_input, raised |-> raised, printed |-> printed]

Rule60 == "============================================================"

---------------------------------------------------------------------------
(* backend/api.py *)

DefaultModel == "llama-3.3-70b-versatile"

HTTPException(status_code, detail) ==
    [kind |-> "http", status |-> status_code, body |-> [detail |-> detail]]

\* What the framework answers when a handler raises anything but an
\* HTTPException.
InternalServerError ==
    [kind |-> "http", status |-> 500, body |-> [text |-> "Internal Server Error"]]

Ok(body) == [kind |-> "http", status |-> 200, body |-> body]

\* Mutant of verify_api_key: a missing header is let through.
verify_api_key_missing_header_ok(api_key) ==
    LET expected_key == env["FREDRICK_API_KEY"] IN
    IF ~TruthyStr(expected_key)
    THEN HTTPException(500, "API key not configured")
    ELSE IF api_key # None /\ api_key # expected_key
    THEN HTTPException(401, "Invalid API key")
    ELSE [kind |-> "ok"]

\* Mutant of verify_api_key: the header is compared before the configuration
\* is looked at.
verify_api_key_compare_first(api_key) ==
    LET expected_key == env["FREDRICK_API_KEY"] IN
    IF api_key # expected_key
    THEN HTTPException(401, "Invalid API key")
    ELSE IF ~TruthyStr(expected_key)
    THEN HTTPException(500, "API key not configured")
    ELSE [kind |-> "ok"]

verify_api_key(api_key) ==
    LET expected_key == env["FREDRICK_API_KEY"] IN
    IF ~TruthyStr(expected_key)
    THEN HTTPException(500, "API key not configured")
    ELSE IF api_key # expected_key
    THEN HTTPException(401, "Invalid API key")
    ELSE [kind |-> "ok"]

ChatSystemPrompt ==
    "You are FREDRICK, the Executive AI CTO for Southern Shade LLC. \n"
    \o "    You provide strategic business intelligence, compliance oversight, and risk analysis. \n"
    \o "    Your responses are professional, analytical, and actionable."

chat_user_message(request) ==
    IF TruthyStr(request.context)
    THEN "Context: " \o request.context[1] \o "\n\nQuery: " \o request.message
    ELSE request.message

RiskSystemPrompt ==
    "You are FREDRICK's risk analysis module. Evaluate business risks \n"
    \o "    across financial, operational, legal, and strategic dimensions. Provide a structured \n"
    \o "    risk assessment with severity levels and mitigation strategies."

\* Mutant of risk_user_message: the section is written whether or not
\* risk_areas is given.
risk_user_message_always_label(request) ==
    "Business Data:\n" \o request.business_data \o "\n\n"
    \o "Focus on these risk areas: "
    \o Join(", ", IF TruthySeq(request.risk_areas) THEN request.risk_areas[1] ELSE <<>>)
    \o "\n\n"
    \o "Provide comprehensive risk analysis."

risk_user_message(request) ==
    "Business Data:\n" \o request.business_data \o "\n\n"
    \o (IF TruthySeq(request.risk_areas)
        THEN "Focus on these risk areas: " \o Join(", ", request.risk_areas[1]) \o "\n\n"
        ELSE "")
    \o "Provide comprehensive risk analysis."

ComplianceSystemPrompt(request) ==
    "You are FREDRICK's compliance module. Review documents for \n"
    \o "    compliance with " \o request.compliance_framework
    \o ". Identify gaps, violations, and \n"
    \o "    provide recommendations for achieving full compliance."

\* Mutant of compliance_user_message: the document is left out.
compliance_user_message_no_document(request) ==
    "Document to review:\n" \o "\n\nProvide compliance analysis."

compliance_user_message(request) ==
    "Document to review:\n" \o request.document \o "\n\nProvide compliance analysis."

DueDiligenceSystemPrompt ==
    "You are FREDRICK's due diligence module. Conduct thorough \n"
    \o "    due diligence analysis covering financial health, legal standing, operational \n"
    \o "    efficiency, market position, and strategic viability. Flag red flags and provide \n"
    \o "    actionable insights."

due_diligence_user_message(request) ==
    "Company Information:\n" \o request.company_info \o "\n\n"
    \o (IF TruthySeq(request.focus_areas)
        THEN "Focus areas: " \o Join(", ", request.focus_areas[1]) \o "\n\n"
        ELSE "")
    \o "Provide comprehensive due diligence report."

\* The keyword arguments of client.chat.completions.create in call_groq.
call_groq_request(by, system_prompt, user_message) ==
    [by |-> by,
     model |-> DefaultModel,
     messages |-> <<[role |-> "system", content |-> system_prompt],
                    [role |-> "user", content |-> user_message]>>,
     temperature |-> "0.7",
     max_tokens |-> 2000]

\* A category endpoint up to the point where call_groq waits for the remote
\* service: the verify_api_key dependency, then the prompt pair, then the call.
Endpoint(name, header, request, system_prompt, user_message) ==
    /\ pc = "idle"
    /\ Len(sent) < MaxSent
    /\ LET by == [name |-> name, header |-> header, args |-> request]
           auth == verify_api_key(header)
       IN  /\ op' = by
           /\ IF auth.kind # "ok"
              THEN /\ result' = auth
                   /\ pc' = "done"
                   /\ calls' = 0
                   /\ sent' = sent
              ELSE /\ result' = NoResult
                   /\ pc' = "await"
                   /\ calls' = calls + 1
                   /\ sent' = Append(sent, call_groq_request(by, system_prompt, user_message))
    /\ reply' = NoReply
    /\ UNCHANGED <<variant, session, env, self, conversation_history>>

root ==
    /\ variant = "http"
    /\ pc = "idle"
    /\ op' = [name |-> "/", header |-> None, args |-> [none |-> TRUE]]
    /\ result' = Ok([status |-> "online", service |-> "FREDRICK AI", version |-> "1.0.0"])
    /\ pc' = "done"
    /\ calls' = 0
    /\ reply' = NoReply
    /\ UNCHANGED <<variant, session, env, self, conversation_history, sent>>

chat ==
    /\ variant = "http"
    /\ \E header \in Headers, request \in ChatRequests :
        Endpoint("/chat", header, request, ChatSystemPrompt, chat_user_message(request))

risk_analysis ==
    /\ variant = "http"
    /\ \E header \in Headers, request \in RiskAnalysisRequests :
        Endpoint("/risk-analysis", header, request, RiskSystemPrompt,
                 risk_user_message(request))

compliance_check ==
    /\ variant = "http"
    /\ \E header \in Headers, request \in ComplianceCheckRequests :
        Endpoint("/compliance-check", header, request, ComplianceSystemPrompt(request),
                 compliance_user_message(request))

due_diligence ==
    /\ variant = "http"
    /\ \E header \in Headers, request \in DueDiligenceRequests :
        Endpoint("/due-diligence", header, request, DueDiligenceSystemPrompt,
                 due_diligence_user_message(request))

\* Mutant of endpoint_response: /risk-analysis answers with /chat's field.
endpoint_response_wrong_field(by, response) ==
    CASE by.name = "/chat" ->
            IF response = None THEN InternalServerError
            ELSE Ok([response |-> response[1], model |-> DefaultModel])
      [] by.name = "/risk-analysis" ->
            Ok([response |-> response, model |-> DefaultModel])
      [] by.name = "/compliance-check" ->
            Ok([compliance_report |-> response, framework |-> by.args.compliance_framework])
      [] by.name = "/due-diligence" ->
            Ok([due_diligence_report |-> response, model |-> DefaultModel])

\* What the handler returns once call_groq has returned `response`.
\* ChatResponse declares response: str, so a None content fails its
\* validation inside the handler; the other handlers return plain dicts.
endpoint_response(by, response) ==
    CASE by.name = "/chat" ->
            IF response = None THEN InternalServerError
            ELSE Ok([response |-> response[1], model |-> DefaultModel])
      [] by.name = "/risk-analysis" ->
            Ok([analysis |-> response, model |-> DefaultModel])
      [] by.name = "/compliance-check" ->
            Ok([compliance_report |-> response, framework |-> by.args.compliance_framework])
      [] by.name = "/due-diligence" ->
            Ok([due_diligence_report |-> response, model |-> DefaultModel])

\* Mutant of call_groq_error: the cause is dropped from the detail.
call_groq_error_generic(e) == HTTPException(500, "Groq API error")

\* call_groq's except clause
call_groq_error(e) == HTTPException(500, "Groq API error: " \o e)

\* client.chat.completions.create returns: call_groq returns the content and
\* the handler builds its response.
call_groq_returns ==
    /\ variant = "http"
    /\ pc = "await"
    /\ \E content \in Contents :
           /\ reply' = Returned(content)
           /\ result' = endpoint_response(op, content)
    /\ pc' = "done"
    /\ UNCHANGED <<variant, session, env, self, conversation_history, op, calls, sent>>

\* client.chat.completions.create raises (transport, authentication, quota,
\* malformed response): call_groq raises HTTPException(500).
call_groq_raises ==
    /\ variant = "http"
    /\ pc = "await"
    /\ \E e \in Errors :
           /\ reply' = Raised(e)
           /\ result' = call_groq_error(e)
    /\ pc' = "done"
    /\ UNCHANGED <<variant, session, env, self, conversation_history, op, calls, sent>>

\* The process does not run main(): the endpoints, or the class used by
\* another program.
NoSession == [state |-> "none"]

\* The caller has the result; the process is ready for the next operation.
Respond ==
    /\ pc = "done"
    /\ session = NoSession
    /\ pc' = "idle"
    /\ op' = NoOp
    /\ result' = NoResult
    /\ reply' = NoReply
    /\ calls' = 0
    /\ UNCHANGED <<variant, session, env, self, conversation_history, sent>>

NoSelf == [kind |-> "none"]

NoEnv ==
    [FREDRICK_API_KEY |-> None, GROQ_API_KEY |-> None, GEMINI_API_KEY |-> None,
     FREDRICK_ORG_NAME |-> None, FREDRICK_RISK_TOLERANCE |-> None,
     FREDRICK_PRIMARY_MARKET |-> None]

\* api.py after import: the module-level client exists (GROQ_API_KEY is set,
\* or the import would have failed), FREDRICK_API_KEY is whatever the
\* deployment set.
InitHttp ==
    /\ variant = "http"
    /\ \E k \in ApiKeys :
           env = [NoEnv EXCEPT !["FREDRICK_API_KEY"] = k, !["GROQ_API_KEY"] = Some("gk")]
    /\ self = NoSelf
    /\ session = NoSession
    /\ conversation_history = <<>>
    /\ pc = "idle"
    /\ op = NoOp
    /\ calls = 0
    /\ sent = <<>>
    /\ reply = NoReply
    /\ result = NoResult

---------------------------------------------------------------------------
(* backend/fredrick_groq.py *)

\* Constructor arguments and the environment they fall back to.
GroqApiKeys == {None, Some("gk")}
\* <<org_name argument, FREDRICK_ORG_NAME>>
OrgNames == {<<None, None>>, <<None, Some("EnvCo")>>, <<Some("Acme"), Some("EnvCo")>>}

Scenarios == {"s", "t"}

\* Optional[Dict[str, Any]]: absent, empty, encodable, not encodable
Datas ==
    {None, Some(<<>>), Some(<< <<"k", [str |-> "v"]>> >>),
     Some(<< <<"when", [obj |-> "datetime"]>> >>)}

Subjects == {"s"}

Regulations == {<<"x", "y">>, <<"x, y">>}

\* Optional[List[Dict]]: prior role-tagged messages
GroqContexts ==
    {None, Some(<<>>),
     Some(<<[role |-> "user", content |-> "p"], [role |-> "assistant", content |-> "q"]>>)}

GroqChatArgs == [message : {"b"}, context : GroqContexts]
AnalyzeRiskArgs == [scenario : Scenarios, data : Datas]
ComplianceCheckArgs == [action : Scenarios, regulations : Regulations]
DueDiligenceReportArgs == [subject : Subjects, scope : Regulations]

Groq_system_prompt(org_name, primary_market, risk_tolerance) ==
    "You are FREDRICK, the Chief Technology Officer AI for " \o org_name \o ".\n"
    \o "\n"
    \o "Your role:\n"
    \o "- Strategic technical advisor for AI automation and government contracting\n"
    \o "- Risk assessment and compliance oversight specialist\n"
    \o "- Business intelligence and due diligence expert\n"
    \o "- Focus on " \o primary_market \o " markets\n"
    \o "- Risk tolerance: " \o risk_tolerance \o "\n"
    \o "\n"
    \o "Key responsibilities:\n"
    \o "1. Technical risk evaluation for projects and partnerships\n"
    \o "2. Compliance checking (FAR, CMMC, HIPAA, SOC 2, etc.)\n"
    \o "3. Due diligence on vendors, opportunities, and partnerships\n"
    \o "4. Strategic technology recommendations\n"
    \o "5. Cybersecurity and data governance guidance\n"
    \o "\n"
    \o "Always provide:\n"
    \o "- Clear go/no-go recommendations\n"
    \o "- Specific risk mitigation strategies\n"
    \o "- Compliance requirements and gaps\n"
    \o "- Actionable next steps\n"
    \o "- References to relevant regulations when applicable\n"
    \o "\n"
    \o "Be direct, tactical, and focused on " \o org_name
    \o "'s success in government and enterprise AI automation."

\* FREDRICK.__init__: the object, or the ValueError it raises
Groq_init(api_key, model, org_name, risk_tolerance, primary_market) ==
    LET key == IF TruthyStr(api_key) THEN api_key ELSE env["GROQ_API_KEY"]
        org == OrStr(org_name, GetenvDefault("FREDRICK_ORG_NAME", "Southern Shade LLC"))
        tol == OrStr(risk_tolerance, GetenvDefault("FREDRICK_RISK_TOLERANCE", "moderate"))
        mkt == OrStr(primary_market,
                     GetenvDefault("FREDRICK_PRIMARY_MARKET", "US_GOV_AND_ENTERPRISE"))
    IN  IF ~TruthyStr(key)
        THEN [kind |-> "raise",
              error |-> "GROQ_API_KEY not found. Set it in .env or pass to constructor."]
        ELSE [kind |-> "groq", api_key |-> key[1], model |-> model, org_name |-> org,
              risk_tolerance |-> tol, primary_market |-> mkt,
              system_prompt |-> Groq_system_prompt(org, mkt, tol)]

\* Mutant of Groq_chat_messages: the prior context is put after the user
\* message.
Groq_chat_messages_context_last(message, context) ==
    <<[role |-> "system", content |-> self.system_prompt]>>
    \o <<[role |-> "user", content |-> message]>>
    \o (IF TruthySeq(context) THEN context[1] ELSE <<>>)

\* chat: the messages list
Groq_chat_messages(message, context) ==
    <<[role |-> "system", content |-> self.system_prompt]>>
    \o (IF TruthySeq(context) THEN context[1] ELSE <<>>)
    \o <<[role |-> "user", content |-> message]>>

\* chat: the keyword arguments of self.client.chat.completions.create
Groq_chat_request(by, message, context) ==
    [by |-> by,
     model |-> self.model,
     messages |-> Groq_chat_messages(message, context),
     temperature |-> "0.7",
     max_tokens |-> 2048]

\* chat's except clause
Groq_chat_error(e) == "Error: " \o e

Groq_analyze_risk_prompt(scenario, data) ==
    "As CTO, analyze the following scenario for technical and business risks:\n"
    \o "\n"
    \o "Scenario: " \o scenario \o "\n"
    \o "\n"
    \o "Additional Data:\n"
    \o (IF TruthySeq(data) THEN json_dumps_indent2(data[1]).text ELSE "None provided") \o "\n"
    \o "\n"
    \o "Provide a structured risk analysis including:\n"
    \o "1. Technical Risks (infrastructure, scalability, security)\n"
    \o "2. Compliance Risks (regulatory, contractual, data governance)\n"
    \o "3. Resource Risks (team capacity, skills, budget)\n"
    \o "4. Timeline Risks (delivery, dependencies)\n"
    \o "5. Mitigation Strategies for each risk category\n"
    \o "6. Overall Risk Level (Low/Moderate/High/Critical)\n"
    \o "7. Go/No-Go Recommendation with rationale"

Groq_compliance_check_prompt(action, regulations) ==
    "As CTO with compliance oversight responsibility, evaluate this proposed action:\n"
    \o "\n"
    \o "Action: " \o action \o "\n"
    \o "\n"
    \o "Relevant Regulations: " \o Join(", ", regulations) \o "\n"
    \o "\n"
    \o "Provide:\n"
    \o "1. Compliance Assessment (Compliant/Non-Compliant/Needs Review)\n"
    \o "2. Specific Requirements from each regulation\n"
    \o "3. Gaps or concerns\n"
    \o "4. Required controls or documentation\n"
    \o "5. Recommended next steps"

Groq_due_diligence_report_prompt(subject, scope) ==
    "As CTO, conduct a due diligence analysis on:\n"
    \o "\n"
    \o "Subject: " \o subject \o "\n"
    \o "\n"
    \o "Scope Areas: " \o Join(", ", scope) \o "\n"
    \o "\n"
    \o "For each scope area, provide:\n"
    \o "1. Key evaluation criteria\n"
    \o "2. Red flags to watch for\n"
    \o "3. Required documentation/verification\n"
    \o "4. Risk indicators\n"
    \o "\n"
    \o "Conclude with:\n"
    \o "- Overall assessment\n"
    \o "- Go/No-Go recommendation\n"
    \o "- Contingencies or conditions for proceeding"

\* Mutant of GroqSend: the request is sent a second time.
GroqSend_retry(by, message, context) ==
    /\ op' = by
    /\ sent' = sent \o <<Groq_chat_request(by, message, context),
                         Groq_chat_request(by, message, context)>>
    /\ calls' = calls + 2
    /\ pc' = "await"
    /\ result' = NoResult
    /\ reply' = NoReply

\* A method up to the point where chat waits for the remote service.
GroqSend(by, message, context) ==
    /\ op' = by
    /\ sent' = Append(sent, Groq_chat_request(by, message, context))
    /\ calls' = calls + 1
    /\ pc' = "await"
    /\ result' = NoResult
    /\ reply' = NoReply

\* An exception that leaves the method before chat is entered.
Propagate(by, e) ==
    /\ op' = by
    /\ result' = [kind |-> "raise", error |-> e]
    /\ pc' = "done"
    /\ calls' = 0
    /\ reply' = NoReply
    /\ sent' = sent

Groq_chat ==
    /\ variant = "groq"
    /\ pc = "idle"
    /\ Len(sent) < MaxSent
    /\ \E args \in GroqChatArgs :
           GroqSend([name |-> "chat", header |-> None, args |-> args],
                    args.message, args.context)
    /\ UNCHANGED <<variant, session, env, self, conversation_history>>

Groq_analyze_risk ==
    /\ variant = "groq"
    /\ pc = "idle"
    /\ Len(sent) < MaxSent
    /\ \E args \in AnalyzeRiskArgs :
           LET by == [name |-> "analyze_risk", header |-> None, args |-> args] IN
           IF TruthySeq(args.data) /\ ~json_dumps_indent2(args.data[1]).ok
           THEN Propagate(by, json_dumps_indent2(args.data[1]).error)
           ELSE GroqSend(by, Groq_analyze_risk_prompt(args.scenario, args.data), None)
    /\ UNCHANGED <<variant, session, env, self, conversation_history>>

Groq_compliance_check ==
    /\ variant = "groq"
    /\ pc = "idle"
    /\ Len(sent) < MaxSent
    /\ \E args \in ComplianceCheckArgs :
           GroqSend([name |-> "compliance_check", header |-> None, args |-> args],
                    Groq_compliance_check_prompt(args.action, args.regulations), None)
    /\ UNCHANGED <<variant, session, env, self, conversation_history>>

Groq_due_diligence_report ==
    /\ variant = "groq"
    /\ pc = "idle"
    /\ Len(sent) < MaxSent
    /\ \E args \in DueDiligenceReportArgs :
           GroqSend([name |-> "due_diligence_report", header |-> None, args |-> args],
                    Groq_due_diligence_report_prompt(args.subject, args.scope), None)
    /\ UNCHANGED <<variant, session, env, self, conversation_history>>

\* Mutant of Groq_result: compliance_check hands back the regulations as the
\* one string the prompt shows, due_diligence_report the scope in reverse.
Groq_result_rewritten(by, text) ==
    CASE by.name = "chat" -> text
      [] by.name = "analyze_risk" ->
            [scenario |-> by.args.scenario, data |-> by.args.data,
             analysis |-> text, model |-> self.model]
      [] by.name = "compliance_check" ->
            [action |-> by.args.action, regulations |-> <<Join(", ", by.args.regulations)>>,
             assessment |-> text, model |-> self.model]
      [] by.name = "due_diligence_report" ->
            [subject |-> by.args.subject,
             scope |-> [i \in 1..Len(by.args.scope) |->
                            by.args.scope[Len(by.args.scope) + 1 - i]],
             report |-> text, model |-> self.model]

\* What the method returns once chat has returned `text` (the completion's
\* content, or chat's error string).
Groq_result(by, text) ==
    CASE by.name = "chat" -> text
      [] by.name = "analyze_risk" ->
            [scenario |-> by.args.scenario, data |-> by.args.data,
             analysis |-> text, model |-> self.model]
      [] by.name = "compliance_check" ->
            [action |-> by.args.action, regulations |-> by.args.regulations,
             assessment |-> text, model |-> self.model]
      [] by.name = "due_diligence_report" ->
            [subject |-> by.args.subject, scope |-> by.args.scope,
             report |-> text, model |-> self.model]

Groq_create_returns ==
    /\ variant = "groq"
    /\ pc = "await"
    /\ \E content \in Contents :
           /\ reply' = Returned(content)
           /\ result' = [kind |-> "return", value |-> Groq_result(op, content)]
    /\ pc' = "done"
    /\ UNCHANGED <<variant, session, env, self, conversation_history, op, calls, sent>>

Groq_create_raises ==
    /\ variant = "groq"
    /\ pc = "await"
    /\ \E e \in Errors :
           /\ reply' = Raised(e)
           /\ result' = [kind |-> "return", value |-> Groq_result(op, Some(Groq_chat_error(e)))]
    /\ pc' = "done"
    /\ UNCHANGED <<variant, session, env, self, conversation_history, op, calls, sent>>

\* main: the outer except clause
Groq_main_error(e) ==
    <<"Error initializing FREDRICK: " \o e,
      "\nMake sure you have GROQ_API_KEY set in your .env file">>

\* main: what it prints before the first input()
Groq_main_banner(fred) ==
    <<Rule60, "FREDRICK - CTO AI (Groq-powered)", Rule60>>
    \o (IF fred.kind = "raise" THEN Groq_main_error(fred.error)
        ELSE <<"\nOrganization: " \o fred.org_name,
               "Model: " \o fred.model,
               "Risk Tolerance: " \o fred.risk_tolerance,
               "\nType 'exit' to quit\n">>)

\* main: the exit test of the loop
Groq_main_is_exit(user_input) == Lower(user_input) \in {"exit", "quit"}

\* Mutant of Groq_main_show: the answer is dropped.
Groq_main_show_nothing(response) == <<"\nFREDRICK: \n">>

\* main: print(f"\nFREDRICK: {response}\n")
Groq_main_show(response) == <<"\nFREDRICK: " \o Str(response) \o "\n">>

\* main: one turn of the loop from input("You: ") to the point where it
\* leaves the loop or chat waits for the remote service.  EOFError is an
\* Exception, so the outer except clause takes it; KeyboardInterrupt is not,
\* and leaves main.
Groq_main_input ==
    /\ variant = "groq"
    /\ session.state = "running"
    /\ pc = "input"
    /\ \E got \in MainInputs :
           IF got.kind = "raise"
           THEN /\ session' = Ended(None, Some(got.type),
                                    IF got.type = "KeyboardInterrupt" THEN <<>>
                                    ELSE Groq_main_error(got.error))
                /\ pc' = "exited"
                /\ UNCHANGED <<op, calls, sent, reply, result>>
           ELSE IF Groq_main_is_exit(got.text)
           THEN /\ session' = Ended(Some(got.text), None, <<>>)
                /\ pc' = "exited"
                /\ UNCHANGED <<op, calls, sent, reply, result>>
           ELSE /\ Len(sent) < MaxSent
                /\ session' = Running(Some(got.text), None, <<>>)
                /\ GroqSend([name |-> "chat", header |-> None,
                             args |-> [message |-> got.text, context |-> None]],
                            got.text, None)
    /\ UNCHANGED <<variant, env, self, conversation_history>>

\* main: fred.chat has returned; the answer is printed and the loop goes back
\* to input().
Groq_main_print ==
    /\ variant = "groq"
    /\ session.state = "running"
    /\ pc = "done"
    /\ session' = [session EXCEPT !.printed = Groq_main_show(result.value)]
    /\ pc' = "input"
    /\ op' = NoOp
    /\ result' = NoResult
    /\ reply' = NoReply
    /\ calls' = 0
    /\ UNCHANGED <<variant, env, self, conversation_history, sent>>

\* main: Ctrl-C while fred.chat waits for the remote service; chat's except
\* Exception does not take it, nor does main's.
Groq_main_interrupt ==
    /\ variant = "groq"
    /\ session.state = "running"
    /\ pc = "await"
    /\ session' = Ended(session.user_input, Some("KeyboardInterrupt"), <<>>)
    /\ pc' = "exited"
    /\ UNCHANGED <<variant, env, self, conversation_history, op, calls, sent, reply, result>>

\* main() run as a program: fred = FREDRICK() with every argument at its
\* default, the key taken from the environment.
InitGroqMain ==
    /\ variant = "groq"
    /\ \E key \in GroqApiKeys, org \in OrgNames :
           /\ org[1] = None
           /\ env = [NoEnv EXCEPT !["GROQ_API_KEY"] = key, !["FREDRICK_ORG_NAME"] = org[2]]
           /\ self = Groq_init(None, DefaultModel, None, Some("moderate"),
                               Some("US_GOV_AND_ENTERPRISE"))
    /\ session = IF self.kind = "raise"
                 THEN Ended(None, Some("ValueError"), Groq_main_banner(self))
                 ELSE Running(None, None, Groq_main_banner(self))
    /\ pc = IF self.kind = "raise" THEN "failed" ELSE "input"
    /\ conversation_history = <<>>
    /\ op = NoOp
    /\ calls = 0
    /\ sent = <<>>
    /\ reply = NoReply
    /\ result = NoResult

\* fred = FREDRICK(...) made by another program: the object, or pc = "failed"
\* when the constructor raised.
InitGroq ==
    /\ variant = "groq"
    /\ \E api_key \in GroqApiKeys, org \in OrgNames :
           /\ env = [NoEnv EXCEPT !["FREDRICK_ORG_NAME"] = org[2]]
           /\ self = Groq_init(api_key, DefaultModel, org[1], Some("moderate"),
                               Some("US_GOV_AND_ENTERPRISE"))
    /\ pc = IF self.kind = "raise" THEN "failed" ELSE "idle"
    /\ session = NoSession
    /\ conversation_history = <<>>
    /\ op = NoOp
    /\ calls = 0
    /\ sent = <<>>
    /\ reply = NoReply
    /\ result = NoResult

---------------------------------------------------------------------------
(* backend/fredrick.py *)

\* Optional[Dict[str, Any]] context of chat
GeminiContexts ==
    {None, Some(<<>>), Some(<< <<"k", [str |-> "v"]>> >>),
     Some(<< <<"when", [obj |-> "datetime"]>> >>)}

GeminiChatArgs == [user_message : {"b", "c"}, context : GeminiContexts]

\* response.text of generate_content
Texts == {"R1", "Error processing message: boom"}

get_system_prompt ==
    "You are FREDRICK - Fiduciary Risk Evaluation, Due-diligence Reporting & Integrated Compliance Knowledge.\n"
    \o "\n"
    \o "You are the Executive AI Partner for Southern Shade LLC, providing strategic business intelligence, compliance oversight, and risk analysis.\n"
    \o "\n"
    \o "YOUR CORE IDENTITY:\n"
    \o "- Executive Business Partner with fiduciary responsibility\n"
    \o "- Strategic advisor focused on long-term value creation\n"
    \o "- Compliance and risk management specialist\n"
    \o "- Professional, analytical, and detail-oriented\n"
    \o "- Direct communicator who provides actionable insights\n"
    \o "\n"
    \o "YOUR RESPONSIBILITIES:\n"
    \o "1. FIDUCIARY DUTY: Always act in Southern Shade LLC's best interest\n"
    \o "2. RISK EVALUATION: Assess and communicate business risks clearly\n"
    \o "3. DUE DILIGENCE: Conduct thorough research and verification\n"
    \o "4. COMPLIANCE: Ensure adherence to legal and regulatory requirements\n"
    \o "5. STRATEGIC ANALYSIS: Provide executive-level business intelligence\n"
    \o "\n"
    \o "YOUR ETHICAL FRAMEWORK:\n"
    \o "- Written authorization required (Rules of Engagement)\n"
    \o "- Clear scope boundaries for all engagements\n"
    \o "- Stop conditions when requirements are unclear\n"
    \o "- Data handling rules compliance (HIPAA, SOC 2, ISO standards)\n"
    \o "- Client risk tolerance assessment\n"
    \o "\n"
    \o "YOU REFUSE work that is:\n"
    \o "- Undefined or unbounded\n"
    \o "- Legally ambiguous\n"
    \o "- Reputationally dangerous\n"
    \o "- Outside documented authorization\n"
    \o "\n"
    \o "YOUR COMMUNICATION STYLE:\n"
    \o "- Professional and executive-appropriate\n"
    \o "- Data-driven with clear rationale\n"
    \o "- Risk-aware and compliance-conscious\n"
    \o "- Action-oriented with specific recommendations\n"
    \o "- Transparent about limitations and uncertainties\n"
    \o "\n"
    \o "YOU EXCEL AT:\n"
    \o "- Business analysis and strategy\n"
    \o "- Compliance and regulatory review\n"
    \o "- Risk assessment and mitigation\n"
    \o "- Due diligence investigations\n"
    \o "- Executive decision support\n"
    \o "- Contract and agreement analysis\n"
    \o "- Competitive intelligence\n"
    \o "- Market research and analysis\n"
    \o "\n"
    \o "You keep stakeholders informed, out of legal exposure, and focused on strategic objectives.\n"
    \o "You translate technical risks into executive language and provide clear, actionable guidance."

NotInitialized ==
    "FREDRICK is not properly initialized. Please check your Gemini API key."

\* Mutant of Gemini_full_message: the last turn of the history is put in front.
Gemini_full_message_with_history(user_message, context) ==
    (IF conversation_history = <<>> THEN ""
     ELSE conversation_history[Len(conversation_history)].content \o "\n\n")
    \o (IF TruthySeq(context)
        THEN "Context: " \o json_dumps(context[1]).text \o "\n\nMessage: " \o user_message
        ELSE user_message)

\* chat: full_message, given the context's encoding
Gemini_full_message(user_message, context) ==
    IF TruthySeq(context)
    THEN "Context: " \o json_dumps(context[1]).text \o "\n\nMessage: " \o user_message
    ELSE user_message

\* chat's except clause
Gemini_chat_error(e) == "Error processing message: " \o e

Gemini_analyze_risk_prompt(scenario, data) ==
    "Conduct a comprehensive risk analysis for the following scenario:\n"
    \o "\n"
    \o "Scenario: " \o scenario \o "\n"
    \o "\n"
    \o (IF TruthySeq(data) THEN "Additional Data: " \o json_dumps_indent2(data[1]).text ELSE "")
    \o "\n"
    \o "\n"
    \o "Provide analysis in the following structure:\n"
    \o "1. Risk Identification\n"
    \o "2. Risk Assessment (likelihood and impact)\n"
    \o "3. Risk Mitigation Strategies\n"
    \o "4. Compliance Considerations\n"
    \o "5. Recommendations\n"

Gemini_compliance_check_prompt(action, regulations) ==
    "Review the following action for compliance:\n"
    \o "\n"
    \o "Proposed Action: " \o action \o "\n"
    \o "\n"
    \o "Relevant Regulations: " \o Join(", ", regulations) \o "\n"
    \o "\n"
    \o "Provide:\n"
    \o "1. Compliance Status Assessment\n"
    \o "2. Potential Issues or Violations\n"
    \o "3. Required Documentation\n"
    \o "4. Recommended Modifications\n"
    \o "5. Approval Requirements\n"

Gemini_due_diligence_report_prompt(subject, scope) ==
    "Conduct due diligence investigation on:\n"
    \o "\n"
    \o "Subject: " \o subject \o "\n"
    \o "\n"
    \o "Scope Areas: " \o Join(", ", scope) \o "\n"
    \o "\n"
    \o "Provide comprehensive report covering:\n"
    \o "1. Executive Summary\n"
    \o "2. Findings by Scope Area\n"
    \o "3. Risk Factors Identified\n"
    \o "4. Red Flags or Concerns\n"
    \o "5. Verification Status\n"
    \o "6. Recommendations\n"

\* What the method returns once chat has returned `text`.
Gemini_result(by, text) ==
    CASE by.name = "chat" -> text
      [] by.name = "analyze_risk" ->
            [scenario |-> by.args.scenario, analysis |-> text]
      [] by.name = "compliance_check" ->
            [action |-> by.args.action, regulations |-> by.args.regulations,
             assessment |-> text]
      [] by.name = "due_diligence_report" ->
            [subject |-> by.args.subject, scope |-> by.args.scope, report |-> text]

\* Mutant of Gemini_store_user: the turn is put at the front.
Gemini_store_user_prepend(history, full_message) ==
    <<[role |-> "user", content |-> full_message]>> \o history

\* chat: "Store message in history"
Gemini_store_user(history, full_message) ==
    Append(history, [role |-> "user", content |-> full_message])

\* chat: "Store response in history"
Gemini_store_assistant(history, response_text) ==
    Append(history, [role |-> "assistant", content |-> response_text])

\* self.model.generate_content(full_message), on the model built by
\* initialize_model with system_instruction = get_system_prompt()
Gemini_generate_request(by, full_message) ==
    [by |-> by,
     model |-> self.model_name,
     system_instruction |-> get_system_prompt,
     contents |-> full_message]

\* chat(user_message, context), called by `by`, up to the point where it
\* returns early or waits for generate_content.
GeminiChat(by, user_message, context) ==
    /\ op' = by
    /\ reply' = NoReply
    /\ IF ~self.model
       THEN /\ result' = [kind |-> "return", value |-> Gemini_result(by, Some(NotInitialized))]
            /\ pc' = "done"
            /\ calls' = 0
            /\ UNCHANGED <<sent, conversation_history>>
       ELSE IF TruthySeq(context) /\ ~json_dumps(context[1]).ok
       THEN /\ result' = [kind |-> "return",
                          value |-> Gemini_result(by,
                                       Some(Gemini_chat_error(json_dumps(context[1]).error)))]
            /\ pc' = "done"
            /\ calls' = 0
            /\ UNCHANGED <<sent, conversation_history>>
       ELSE LET full_message == Gemini_full_message(user_message, context) IN
            /\ conversation_history' = Gemini_store_user(conversation_history, full_message)
            /\ sent' = Append(sent, Gemini_generate_request(by, full_message))
            /\ calls' = calls + 1
            /\ pc' = "await"
            /\ result' = NoResult

Gemini_chat ==
    /\ variant = "gemini"
    /\ pc = "idle"
    /\ Len(sent) < MaxSent
    /\ \E args \in GeminiChatArgs :
           GeminiChat([name |-> "chat", header |-> None, args |-> args],
                      args.user_message, args.context)
    /\ UNCHANGED <<variant, session, env, self>>

Gemini_analyze_risk ==
    /\ variant = "gemini"
    /\ pc = "idle"
    /\ Len(sent) < MaxSent
    /\ \E args \in AnalyzeRiskArgs :
           LET by == [name |-> "analyze_risk", header |-> None, args |-> args] IN
           IF TruthySeq(args.data) /\ ~json_dumps_indent2(args.data[1]).ok
           THEN /\ Propagate(by, json_dumps_indent2(args.data[1]).error)
                /\ UNCHANGED conversation_history
           ELSE GeminiChat(by, Gemini_analyze_risk_prompt(args.scenario, args.data), None)
    /\ UNCHANGED <<variant, session, env, self>>

Gemini_compliance_check ==
    /\ variant = "gemini"
    /\ pc = "idle"
    /\ Len(sent) < MaxSent
    /\ \E args \in ComplianceCheckArgs :
           GeminiChat([name |-> "compliance_check", header |-> None, args |-> args],
                      Gemini_compliance_check_prompt(args.action, args.regulations), None)
    /\ UNCHANGED <<variant, session, env, self>>

Gemini_due_diligence_report ==
    /\ variant = "gemini"
    /\ pc = "idle"
    /\ Len(sent) < MaxSent
    /\ \E args \in DueDiligenceReportArgs :
           GeminiChat([name |-> "due_diligence_report", header |-> None, args |-> args],
                      Gemini_due_diligence_report_prompt(args.subject, args.scope), None)
    /\ UNCHANGED <<variant, session, env, self>>

\* generate_content returns and response.text is read
Gemini_generate_returns ==
    /\ variant = "gemini"
    /\ pc = "await"
    /\ \E response_text \in Texts :
           /\ reply' = Returned(Some(response_text))
           /\ conversation_history' = Gemini_store_assistant(conversation_history, response_text)
           /\ result' = [kind |-> "return", value |-> Gemini_result(op, Some(response_text))]
    /\ pc' = "done"
    /\ UNCHANGED <<variant, session, env, self, op, calls, sent>>

\* generate_content, or reading response.text, raises
Gemini_generate_raises ==
    /\ variant = "gemini"
    /\ pc = "await"
    /\ \E e \in Errors :
           /\ reply' = Raised(e)
           /\ result' = [kind |-> "return",
                         value |-> Gemini_result(op, Some(Gemini_chat_error(e)))]
    /\ pc' = "done"
    /\ UNCHANGED <<variant, session, env, self, conversation_history, op, calls, sent>>

clear_history ==
    /\ variant = "gemini"
    /\ pc = "idle"
    /\ conversation_history' = <<>>
    /\ UNCHANGED <<variant, session, env, self, pc, op, calls, sent, reply, result>>

\* FREDRICK.__init__ with initialize_model: genai.GenerativeModel(...) built
\* the model, or raised and left self.model = None.
Gemini_init(model_name, initialized) ==
    [kind |-> "gemini", model_name |-> model_name, model |-> initialized]

\* main: what it prints before the loop, or instead of it
Gemini_main_banner(fredrick) ==
    <<Rule60, "FREDRICK - Executive AI Partner",
      "Fiduciary Risk Evaluation, Due-diligence Reporting &",
      "Integrated Compliance Knowledge", Rule60, "">>
    \o (IF fredrick.model
        THEN <<"FREDRICK is ready. Type 'exit' to quit, 'clear' to clear history.", "">>
        ELSE <<"Failed to initialize FREDRICK. Please check your configuration.">>)

\* main: print(f"\nFREDRICK: {response}\n")
Gemini_main_show(response) == <<"\nFREDRICK: " \o Str(response) \o "\n">>

\* main: the handler of the loop's except Exception clause
Gemini_main_error(e) == <<"Error: " \o e>>

\* main: one turn of the loop from input("You: ").strip() to the point where
\* it breaks, continues or chat waits for generate_content.  The try is
\* inside the loop: KeyboardInterrupt breaks, any other exception is printed
\* and the loop goes on.
Gemini_main_input ==
    /\ variant = "gemini"
    /\ session.state = "running"
    /\ pc = "input"
    /\ \E got \in MainInputs :
           LET user_input == IF got.kind = "line" THEN Strip(got.text) ELSE "" IN
           IF got.kind = "raise"
           THEN /\ IF got.type = "KeyboardInterrupt"
                   THEN /\ session' = Ended(None, Some(got.type), <<"\n\nSession terminated.">>)
                        /\ pc' = "exited"
                   ELSE /\ session' = Running(None, Some(got.type), Gemini_main_error(got.error))
                        /\ pc' = "input"
                /\ UNCHANGED <<conversation_history, op, calls, sent, reply, result>>
           ELSE IF Lower(user_input) = "exit"
           THEN /\ session' = Ended(Some(user_input), None,
                                    <<"Thank you for consulting with FREDRICK.">>)
                /\ pc' = "exited"
                /\ UNCHANGED <<conversation_history, op, calls, sent, reply, result>>
           ELSE IF Lower(user_input) = "clear"
           THEN /\ session' = Running(Some(user_input), None, <<>>)
                /\ conversation_history' = <<>>
                /\ pc' = "input"
                /\ UNCHANGED <<op, calls, sent, reply, result>>
           ELSE IF user_input = ""
           THEN /\ session' = Running(Some(user_input), None, <<>>)
                /\ pc' = "input"
                /\ UNCHANGED <<conversation_history, op, calls, sent, reply, result>>
           ELSE /\ Len(sent) < MaxSent
                /\ session' = Running(Some(user_input), None, <<>>)
                /\ GeminiChat([name |-> "chat", header |-> None,
                               args |-> [user_message |-> user_input, context |-> None]],
                              user_input, None)
    /\ UNCHANGED <<variant, env, self>>

\* main: fredrick.chat has returned; the answer is printed and the loop goes
\* back to input().
Gemini_main_print ==
    /\ variant = "gemini"
    /\ session.state = "running"
    /\ pc = "done"
    /\ session' = [session EXCEPT !.printed = Gemini_main_show(result.value)]
    /\ pc' = "input"
    /\ op' = NoOp
    /\ result' = NoResult
    /\ reply' = NoReply
    /\ calls' = 0
    /\ UNCHANGED <<variant, env, self, conversation_history, sent>>

\* main: Ctrl-C while fredrick.chat waits for generate_content; chat's except
\* Exception does not take it, main's except KeyboardInterrupt does.
Gemini_main_interrupt ==
    /\ variant = "gemini"
    /\ session.state = "running"
    /\ pc = "await"
    /\ session' = Ended(session.user_input, Some("KeyboardInterrupt"),
                        <<"\n\nSession terminated.">>)
    /\ pc' = "exited"
    /\ UNCHANGED <<variant, env, self, conversation_history, op, calls, sent, reply, result>>

\* main() run as a program: fredrick = FREDRICK(), then the loop if the model
\* was built.
InitGeminiMain ==
    /\ variant = "gemini"
    /\ env = NoEnv
    /\ \E initialized \in BOOLEAN : self = Gemini_init("gemini-pro", initialized)
    /\ session = IF self.model
                 THEN Running(None, None, Gemini_main_banner(self))
                 ELSE Ended(None, None, Gemini_main_banner(self))
    /\ pc = IF self.model THEN "input" ELSE "exited"
    /\ conversation_history = <<>>
    /\ op = NoOp
    /\ calls = 0
    /\ sent = <<>>
    /\ reply = NoReply
    /\ result = NoResult

InitGemini ==
    /\ variant = "gemini"
    /\ session = NoSession
    /\ env = NoEnv
    /\ \E initialized \in BOOLEAN : self = Gemini_init("gemini-pro", initialized)
    /\ conversation_history = <<>>
    /\ pc = "idle"
    /\ op = NoOp
    /\ calls = 0
    /\ sent = <<>>
    /\ reply = NoReply
    /\ result = NoResult

Init == InitHttp \/ InitGroq \/ InitGroqMain \/ InitGemini \/ InitGeminiMain

Next ==
    \/ root
    \/ chat
    \/ risk_analysis
    \/ compliance_check
    \/ due_diligence
    \/ call_groq_raises
    \/ call_groq_returns
    \/ Groq_chat
    \/ Groq_analyze_risk
    \/ Groq_compliance_check
    \/ Groq_due_diligence_report
    \/ Groq_create_returns
    \/ Groq_create_raises
    \/ Gemini_chat
    \/ Gemini_analyze_risk
    \/ Gemini_compliance_check
    \/ Gemini_due_diligence_report
    \/ Gemini_generate_returns
    \/ Gemini_generate_raises
    \/ clear_history
    \/ Respond
    \/ Groq_main_input
    \/ Groq_main_print
    \/ Groq_main_interrupt
    \/ Gemini_main_input
    \/ Gemini_main_print
    \/ Gemini_main_interrupt

Spec == Init /\ [][Next]_vars

---------------------------------------------------------------------------
(* Claims *)

Category == {"/chat", "/risk-analysis", "/compliance-check", "/due-diligence"}

Secret == env["FREDRICK_API_KEY"]

\* The request in progress is a category request of api.py.
CategoryRequest == variant = "http" /\ op.name \in Category

Rejected(status) == pc = "done" /\ result.status = status /\ calls = 0

\* C1, as stated: a category request whose X-API-Key is missing or differs
\* from the secret is answered 401 and makes no completion call.
C1_MissingOrWrongKeyIs401 ==
    (CategoryRequest /\ (op.header = None \/ op.header # Secret)) => Rejected(401)

\* C1, amended: when the server-side secret is configured (set and not
\* empty), a category request whose X-API-Key is missing or differs from it
\* is answered 401 and makes no completion call; no request ever sent to the
\* remote endpoint comes from such a request.
C1_WrongKeyIs401WhenConfigured ==
    /\ (CategoryRequest /\ TruthyStr(Secret) /\ op.header # Secret) => Rejected(401)
    /\ variant = "http" => \A i \in 1..Len(sent) : sent[i].by.header = Secret

C1_Witness ==
    /\ CategoryRequest
    /\ op.name = "/chat"
    /\ op.header = None
    /\ Secret = Some("k1")
    /\ Rejected(401)

\* C2: authentication fails with a status per cause, before any remote call:
\* 500 when FREDRICK_API_KEY is not configured, whatever the header; 401 when
\* it is configured and the header is present and wrong.
C2_StatusPerCause ==
    CategoryRequest =>
        /\ ~TruthyStr(Secret) => Rejected(500)
        /\ (TruthyStr(Secret) /\ op.header # None /\ op.header # Secret) => Rejected(401)

C2_Witness ==
    /\ CategoryRequest
    /\ Secret = None
    /\ op.header = Some("k1")
    /\ Rejected(500)
    /\ result.body.detail = "API key not configured"

DocumentedFields(name) ==
    CASE name = "/" -> {"status", "service", "version"}
      [] name = "/chat" -> {"response", "model"}
      [] name = "/risk-analysis" -> {"analysis", "model"}
      [] name = "/compliance-check" -> {"compliance_report", "framework"}
      [] name = "/due-diligence" -> {"due_diligence_report", "model"}

\* A request that needs no secret, or carries the configured one.
ValidRequest ==
    /\ variant = "http"
    /\ \/ op.name = "/"
       \/ op.name \in Category /\ TruthyStr(Secret) /\ op.header = Secret

Success == result.status = 200 /\ DocumentedFields(op.name) \subseteq DOMAIN result.body

\* C3, as stated: every valid request with a correct secret is answered 200
\* with the documented fields.
C3_ValidRequestSucceeds ==
    (ValidRequest /\ pc = "done") => Success

\* C3, amended: GET / is answered 200 with status, service and version; a
\* category request with the correct secret is answered 200 with its
\* documented fields provided the completion call returns a text.
C3_ValidRequestSucceedsOnText ==
    (ValidRequest /\ pc = "done"
        /\ (op.name \in Category => reply.kind = "content" /\ reply.content # None))
    => Success

C3_Witness ==
    /\ ValidRequest
    /\ pc = "done"
    /\ op.name = "/risk-analysis"
    /\ reply = Returned(Some("R1"))
    /\ result = Ok([analysis |-> Some("R1"), model |-> DefaultModel])

ResultFields == {"response", "analysis", "compliance_report", "due_diligence_report"}

\* C4: when the completion call raises during an authenticated request, the
\* answer is a 500 whose message contains the error's text, and its body
\* holds no response, analysis, compliance_report or due_diligence_report.
C4_UpstreamErrorIs500 ==
    (variant = "http" /\ pc = "done" /\ reply.kind = "raise") =>
        /\ result.status = 500
        /\ Contains(result.body.detail, reply.error)
        /\ DOMAIN result.body \cap ResultFields = {}

C4_Witness ==
    /\ variant = "http"
    /\ pc = "done"
    /\ op.name = "/due-diligence"
    /\ reply = Raised("boom")
    /\ result.status = 500

\* The prompt pair of a request sent to the remote endpoint.
SystemPrompt(e) ==
    IF "messages" \in DOMAIN e THEN e.messages[1].content ELSE e.system_instruction

UserPrompt(e) ==
    IF "messages" \in DOMAIN e THEN e.messages[Len(e.messages)].content ELSE e.contents

\* Every result the operation `by` can hand back when the completion call
\* succeeds.
CompletionResults(by) ==
    CASE variant = "http" -> {endpoint_response(by, c) : c \in Contents}
      [] variant = "groq" -> {[kind |-> "return", value |-> Groq_result(by, c)] : c \in Contents}
      [] variant = "gemini" ->
            {[kind |-> "return", value |-> Gemini_result(by, Some(t))] : t \in Texts}

\* C5: a failure is never delivered in the place of a completion: when the
\* completion call raises, what the caller gets is none of the results a
\* completion gives, and the analysis / assessment / report field of the class
\* variants does not carry the error message.
C5_FailureIsNeverACompletion ==
    (pc = "done" /\ reply.kind = "raise") =>
        /\ result \notin CompletionResults(op)
        /\ (variant = "groq" /\ op.name = "analyze_risk") =>
               result.value.analysis # Some(Groq_chat_error(reply.error))
        /\ (variant = "gemini" /\ op.name = "analyze_risk") =>
               result.value.analysis # Some(Gemini_chat_error(reply.error))

\* chat was entered by the operation in progress (no exception left the
\* method before it).
ChatCalled == variant \in {"groq", "gemini"} /\ pc = "done" /\ result.kind = "return"

Authenticated == CategoryRequest /\ TruthyStr(Secret) /\ op.header = Secret

\* The context of a chat call of fredrick.py that json.dumps cannot encode.
UnencodableContext(by) ==
    /\ by.name = "chat"
    /\ TruthySeq(by.args.context)
    /\ ~json_dumps(by.args.context[1]).ok

\* C6, as stated: every authenticated category request, and every call of
\* chat on an initialized client, makes exactly one round trip.
C6_ExactlyOneRoundTrip ==
    /\ calls <= 1
    /\ (Authenticated /\ pc = "done") => calls = 1
    /\ (ChatCalled /\ variant = "groq") => calls = 1
    /\ (ChatCalled /\ variant = "gemini" /\ self.model) => calls = 1

\* C6, amended: as stated, except that a chat call of fredrick.py whose
\* context json.dumps cannot encode fails before the remote call and makes
\* no round trip.
C6_ExactlyOneRoundTripIfEncodable ==
    /\ calls <= 1
    /\ (Authenticated /\ pc = "done") => calls = 1
    /\ (ChatCalled /\ variant = "groq") => calls = 1
    /\ (ChatCalled /\ variant = "gemini" /\ self.model) =>
           calls = IF UnencodableContext(op) THEN 0 ELSE 1

C6_Witness ==
    /\ ChatCalled
    /\ variant = "groq"
    /\ reply.kind = "raise"
    /\ calls = 1

\* The requests of api.py in the log, by position.
HttpSent == IF variant = "http" THEN 1..Len(sent) ELSE {}

\* C7, as stated: two requests of one category that differ in an input field
\* have different user prompts.
C7_UserPromptInjective ==
    \A i, j \in HttpSent :
        (sent[i].by.name = sent[j].by.name /\ sent[i].by.args # sent[j].by.args)
        => UserPrompt(sent[i]) # UserPrompt(sent[j])

RequiredField(name) ==
    CASE name = "/chat" -> "message"
      [] name = "/risk-analysis" -> "business_data"
      [] name = "/compliance-check" -> "document"
      [] name = "/due-diligence" -> "company_info"

\* Two requests of one category that differ in the required text field and
\* in nothing else.
DifferInRequiredOnly(a, b) ==
    /\ a.name = b.name
    /\ a.args[RequiredField(a.name)] # b.args[RequiredField(a.name)]
    /\ \A f \in DOMAIN a.args \ {RequiredField(a.name)} : a.args[f] = b.args[f]

\* C7, amended: two requests of one category that differ in the required text
\* field (message, business_data, document, company_info) and agree on the
\* other fields have different user prompts; two /compliance-check requests
\* with different compliance_framework have different system prompts, and the
\* same user prompt when their documents are the same.
C7_UserPromptInjectiveInRequiredField ==
    \A i, j \in HttpSent :
        /\ DifferInRequiredOnly(sent[i].by, sent[j].by)
               => UserPrompt(sent[i]) # UserPrompt(sent[j])
        /\ (sent[i].by.name = "/compliance-check" /\ sent[j].by.name = "/compliance-check")
               => /\ (sent[i].by.args.compliance_framework # sent[j].by.args.compliance_framework)
                         => SystemPrompt(sent[i]) # SystemPrompt(sent[j])
                  /\ (sent[i].by.args.document = sent[j].by.args.document)
                         => UserPrompt(sent[i]) = UserPrompt(sent[j])

C7_Witness ==
    /\ variant = "http"
    /\ Len(sent) = 2
    /\ sent[1].by.name = "/compliance-check"
    /\ DifferInRequiredOnly(sent[1].by, sent[2].by)
    /\ UserPrompt(sent[1]) # UserPrompt(sent[2])

\* C8: two calls of one category with the same input fields send the same
\* (system prompt, user prompt) pair, whatever was requested before and
\* whatever the conversation history holds.
C8_PromptsDeterministic ==
    \A i, j \in 1..Len(sent) :
        (sent[i].by.name = sent[j].by.name /\ sent[i].by.args = sent[j].by.args)
        => /\ SystemPrompt(sent[i]) = SystemPrompt(sent[j])
           /\ UserPrompt(sent[i]) = UserPrompt(sent[j])

C8_Witness ==
    /\ variant = "gemini"
    /\ Len(sent) = 2
    /\ sent[1].by = sent[2].by
    /\ sent[1].by.name = "chat"
    /\ Len(conversation_history) = 3
    /\ UserPrompt(sent[1]) = UserPrompt(sent[2])

\* The label of the section of an optional field, the optional field (a str
\* or a container) and the text fields of the same request, per operation.
OptionalSection(e) ==
    CASE variant = "http" /\ e.by.name = "/chat" ->
            [label |-> "Context:", field |-> "context", str |-> TRUE,
             texts |-> {e.by.args.message}]
      [] variant = "http" /\ e.by.name = "/risk-analysis" ->
            [label |-> "Focus on these risk areas:", field |-> "risk_areas", str |-> FALSE,
             texts |-> {e.by.args.business_data}]
      [] variant = "http" /\ e.by.name = "/due-diligence" ->
            [label |-> "Focus areas:", field |-> "focus_areas", str |-> FALSE,
             texts |-> {e.by.args.company_info}]
      [] variant = "gemini" /\ e.by.name = "chat" ->
            [label |-> "Context:", field |-> "context", str |-> FALSE,
             texts |-> {e.by.args.user_message}]
      [] variant \in {"groq", "gemini"} /\ e.by.name = "analyze_risk" ->
            [label |-> "Additional Data", field |-> "data", str |-> FALSE,
             texts |-> {e.by.args.scenario}]
      [] OTHER -> [label |-> "", field |-> "", str |-> FALSE, texts |-> {}]

\* The optional field of the request is None or empty.
Omitted(e) ==
    LET section == OptionalSection(e) IN
    /\ section.field # ""
    /\ IF section.str
       THEN ~TruthyStr(e.by.args[section.field])
       ELSE ~TruthySeq(e.by.args[section.field])

\* The composer wrote no section under the label: the label is in the prompt
\* only where the caller's own text carries it.
NoSection(e) ==
    Contains(UserPrompt(e), OptionalSection(e).label)
    => \E t \in OptionalSection(e).texts : Contains(t, OptionalSection(e).label)

\* C9, as stated: when an optional field is omitted, the user prompt has no
\* labeled section for it.
C9_OmittedFieldHasNoSection ==
    \A i \in 1..Len(sent) : Omitted(sent[i]) => NoSection(sent[i])

\* C9, amended: as stated for context, risk_areas, focus_areas and the data of
\* fredrick.py's analyze_risk; fredrick_groq.py's analyze_risk always writes
\* "Additional Data:", followed by "None provided" when data is omitted.
C9_OmittedFieldHasNoSectionButGroqData ==
    \A i \in 1..Len(sent) :
        Omitted(sent[i]) =>
            IF variant = "groq" /\ sent[i].by.name = "analyze_risk"
            THEN Contains(UserPrompt(sent[i]), "Additional Data:\nNone provided")
            ELSE NoSection(sent[i])

C9_Witness ==
    /\ variant = "http"
    /\ Len(sent) = 1
    /\ sent[1].by.name = "/risk-analysis"
    /\ sent[1].by.args.risk_areas = None
    /\ ~Contains(UserPrompt(sent[1]), "Focus on these risk areas:")

GeminiChatStep ==
    /\ variant = "gemini"
    /\ pc \in {"idle", "input"}
    /\ pc' \in {"await", "done"}
    /\ result'.kind # "raise"

IsPrefix(s, t) == Len(s) <= Len(t) /\ SubSeq(t, 1, Len(s)) = s

\* Turns stay in call order, and the history shrinks only by clear_history.
HistoryOrdered ==
    \/ IsPrefix(conversation_history, conversation_history')
    \/ pc \in {"idle", "input"} /\ pc' = pc /\ conversation_history' = <<>>

\* C10, as stated: every call of chat of fredrick.py, the calls made through
\* analyze_risk, compliance_check and due_diligence_report included, leaves
\* the history strictly longer; turns are kept in call order; the history
\* shrinks only through clear_history.
C10_EveryChatAppends ==
    [][/\ GeminiChatStep => Len(conversation_history') > Len(conversation_history)
       /\ HistoryOrdered]_vars

\* C10, amended: a call of chat on an initialized model, with a context that
\* json.dumps can encode, appends its user turn to the end of the history,
\* and its assistant turn when the completion returns; a call on an
\* uninitialized model, or with a context that cannot be encoded, leaves the
\* history as it is; turns are kept in call order; the history shrinks only
\* through clear_history.
C10_InitializedChatAppends ==
    [][/\ GeminiChatStep =>
              IF self.model /\ ~UnencodableContext(op')
              THEN /\ Len(conversation_history') = Len(conversation_history) + 1
                   /\ conversation_history'[Len(conversation_history')] =
                          [role |-> "user", content |-> UserPrompt(sent'[Len(sent')])]
              ELSE conversation_history' = conversation_history
       /\ (variant = "gemini" /\ pc = "await" /\ reply'.kind = "content") =>
              conversation_history' =
                  Append(conversation_history,
                         [role |-> "assistant", content |-> reply'.content[1]])
       /\ HistoryOrdered]_vars

C10_Witness ==
    /\ variant = "gemini"
    /\ pc = "await"
    /\ Len(sent) = 2
    /\ sent[1].by.name = "analyze_risk"
    /\ sent[2].by.name = "chat"
    /\ Len(conversation_history) = 3
    /\ conversation_history[1].content = UserPrompt(sent[1])
    /\ conversation_history[2].role = "assistant"
    /\ conversation_history[3].content = UserPrompt(sent[2])

\* The request metadata a result hands back, and the arguments they echo.
EchoedFields(name) ==
    CASE name = "/compliance-check" -> {<<"framework", "compliance_framework">>}
      [] name = "analyze_risk" -> {<<"scenario", "scenario">>}
      [] name = "compliance_check" -> {<<"action", "action">>, <<"regulations", "regulations">>}
      [] name = "due_diligence_report" -> {<<"subject", "subject">>, <<"scope", "scope">>}
      [] OTHER -> {}

\* The mapping the caller got: the body of a 200 answer, or the dict a method
\* of the class variants returned.
Envelope ==
    IF variant = "http" THEN result.body ELSE result.value

EnvelopeReturned ==
    /\ pc = "done"
    /\ EchoedFields(op.name) # {}
    /\ IF variant = "http" THEN result.status = 200 ELSE result.kind = "return"

\* C11: the envelope echoes the request metadata unchanged: a successful
\* /compliance-check answers with the request's compliance_framework, and the
\* dicts of analyze_risk, compliance_check and due_diligence_report carry the
\* scenario, action, regulations, subject and scope they were called with,
\* whatever the completion call gave.
C11_EnvelopeEchoesRequest ==
    EnvelopeReturned =>
        \A f \in EchoedFields(op.name) :
            /\ f[1] \in DOMAIN Envelope
            /\ Envelope[f[1]] = op.args[f[2]]

C11_Witness ==
    /\ variant = "groq"
    /\ EnvelopeReturned
    /\ op.name = "compliance_check"
    /\ op.args.regulations = <<"x", "y">>
    /\ reply = Returned(Some("Error: boom"))
    /\ result.value.regulations = <<"x", "y">>
    /\ result.value.assessment = Some("Error: boom")

\* main() has had a failed exchange: chat is back from a completion call that
\* raised, and main has not printed yet.
FailedExchange == session.state = "running" /\ pc = "done" /\ reply.kind = "raise"

\* main() goes on after a failed exchange: it prints the failure and is back
\* at input().
PrintsAndContinues ==
    FailedExchange =>
        /\ session'.state = "running"
        /\ pc' = "input"
        /\ \E i \in 1..Len(session'.printed) : Contains(session'.printed[i], reply.error)

SessionEnds == session.state = "running" /\ session'.state = "ended"

\* The user typed an exit command: exit or quit, in any case, with or without
\* blanks around it.
ExitTyped(s) ==
    /\ s.raised = None
    /\ s.user_input # None
    /\ Lower(Strip(s.user_input[1])) \in {"exit", "quit"}

Interrupted(s) == s.raised = Some("KeyboardInterrupt")

\* C12, as stated: in main() of the class variants a failed exchange never
\* ends the session, the failure is printed and the loop goes back to read
\* the next input; the session ends only on an exit command or an interrupt.
C12_SessionEndsOnlyOnExitOrInterrupt ==
    [][/\ PrintsAndContinues
       /\ SessionEnds => (ExitTyped(session') \/ Interrupted(session'))]_vars

\* C12, amended: as stated for the failed exchange; the session ends only on
\* an exit command, on an interrupt or, in fredrick_groq.py, on the end of
\* the input (EOFError from input(), which the outer except clause reports as
\* an initialization error); in fredrick.py the end of the input is printed
\* and the loop goes on.
C12_SessionEndsOnlyOnExitInterruptOrEof ==
    [][/\ PrintsAndContinues
       /\ SessionEnds =>
              \/ ExitTyped(session')
              \/ Interrupted(session')
              \/ /\ variant = "groq"
                 /\ session'.raised = Some("EOFError")
                 /\ session'.printed = Groq_main_error("EOF when reading a line")
       /\ (variant = "gemini" /\ session.state = "running" /\ session'.raised = Some("EOFError"))
              => /\ session'.state = "running"
                 /\ pc' = "input"]_vars

\* After a failed exchange main() of fredrick.py is back at input(): the one
\* request left a user turn and no assistant turn, and the failure is on the
\* screen.
C12_Witness ==
    /\ variant = "gemini"
    /\ session.state = "running"
    /\ pc = "input"
    /\ Len(sent) = 1
    /\ Len(conversation_history) = 1
    /\ session.printed = <<"\nFREDRICK: Error processing message: boom\n">>

\* The requests in the log that carry a message sequence (api.py and
\* fredrick_groq.py; fredrick.py hands generate_content one string).
WithMessages == {i \in 1..Len(sent) : "messages" \in DOMAIN sent[i]}

\* The prior context messages the caller of the request gave.
GivenContext(e) ==
    IF variant = "groq" /\ e.by.name = "chat" /\ TruthySeq(e.by.args.context)
    THEN e.by.args.context[1]
    ELSE <<>>

\* The system prompt in force for the request.
ExpectedSystemPrompt(e) ==
    CASE variant = "groq" -> self.system_prompt
      [] e.by.name = "/chat" -> ChatSystemPrompt
      [] e.by.name = "/risk-analysis" -> RiskSystemPrompt
      [] e.by.name = "/compliance-check" -> ComplianceSystemPrompt(e.by.args)
      [] e.by.name = "/due-diligence" -> DueDiligenceSystemPrompt

\* The message of a chat request given without context is the user message
\* as it stands.
PlainChat(e) ==
    \/ variant = "groq" /\ e.by.name = "chat"
    \/ variant = "http" /\ e.by.name = "/chat" /\ e.by.args.context = None

\* C13: every message sequence sent to the completion endpoint has the system
\* prompt first and the current user message last, with the caller's prior
\* context messages in between, in the order given; api.py always sends
\* exactly two messages, system then user.
C13_SystemFirstUserLast ==
    \A i \in WithMessages :
        LET msgs == sent[i].messages IN
        /\ Len(msgs) = 2 + Len(GivenContext(sent[i]))
        /\ msgs[1] = [role |-> "system", content |-> ExpectedSystemPrompt(sent[i])]
        /\ msgs[Len(msgs)].role = "user"
        /\ PlainChat(sent[i]) => msgs[Len(msgs)].content = sent[i].by.args.message
        /\ SubSeq(msgs, 2, Len(msgs) - 1) = GivenContext(sent[i])
        /\ variant = "http" => Len(msgs) = 2

C13_Witness ==
    /\ variant = "groq"
    /\ Len(sent) = 1
    /\ sent[1].by.name = "chat"
    /\ Len(sent[1].messages) = 4
    /\ sent[1].messages[2] = [role |-> "user", content |-> "p"]
    /\ sent[1].messages[3] = [role |-> "assistant", content |-> "q"]
    /\ sent[1].messages[4] = [role |-> "user", content |-> "b"]

\* No chat call of fredrick.py is under way.
GeminiAtRest == variant = "gemini" /\ pc \in {"idle", "input", "done"}

\* User and assistant turns alternate, a user turn first, every user turn
\* followed by its answer.
Alternates(history) ==
    /\ Len(history) % 2 = 0
    /\ \A i \in 1..Len(history) :
           history[i].role = IF i % 2 = 1 THEN "user" ELSE "assistant"

\* C14: between chat calls the history of fredrick.py is a strict alternation
\* of user and assistant turns starting with a user turn, and a chat call
\* that returns an error has left in it no turn of its own.
C14_HistoryAlternates ==
    GeminiAtRest =>
        /\ Alternates(conversation_history)
        /\ (pc = "done" /\ reply.kind = "raise") =>
               \/ conversation_history = <<>>
               \/ conversation_history[Len(conversation_history)].role # "user"

====
